---- MODULE Spec2Model ----
(***************************************************************************)
(* Chinese Postman Tour engine of src/testing_criterions/CPT.py:           *)
(* WeightedDigraphManager (cost closure, strong-connectivity test) and     *)
(* CPTDigraphManager (imbalances, greedy assignment, residual graph,       *)
(* cancellation, tour extraction, cost accounting, reset).                 *)
(*                                                                         *)
(* A graph instance is the record of its fields.  Dictionaries are         *)
(* functions whose DOMAIN is the set of keys; `nodes` is the sequence of   *)
(* node ids in the store's enumeration order; `edges` is the set of        *)
(* (tail, head) pairs of a simple digraph (tail # head).                   *)
(***************************************************************************)
EXTENDS Integers, Sequences, FiniteSets, TLC

VARIABLES nodes, edges, cost_function, cost, spanning_tree, delta,
          basic_cost, feasible, result

vars == <<nodes, edges, cost_function, cost, spanning_tree, delta,
          basic_cost, feasible, result>>

(* ------------------------------ bounds --------------------------------- *)

\* node ids the store hands out, in insertion order
NodeIds == <<"a", "b", "c", "d">>

\* largest number of edges connect_nodes builds
MaxEdges == 6

\* edges a cost_function names, and the costs it gives them
CostKeys == {<<"a", "b">>}
CostValues == {-2, 2}

\* compute_cpt is called while no closure entry lies below -CostLimit
CostLimit == 4

\* nodes of the graphs whose costs update_cost_function changes
UpdateNodeIds == <<"a", "b", "c">>

\* the graph of the repeated-call example at the end of CPT.py
ExampleNodes == <<"A", "B", "C", "D", "s", "t">>
ExampleEdges ==
    {<<"A", "B">>, <<"A", "C">>, <<"B", "D">>, <<"C", "D">>, <<"s", "A">>,
     <<"D", "t">>, <<"t", "s">>}

\* default_cost parameter of the constructors
default_cost == 1

NoNode == "None"
EmptyDict == [x \in {} |-> 0]

(* ----------------------------- helpers --------------------------------- *)

Range(s) == {s[i] : i \in 1..Len(s)}

\* dict.get(key, dflt)
Get(d, key, dflt) == IF key \in DOMAIN d THEN d[key] ELSE dflt

\* d[key] = val on a dictionary
Put(d, key, val) ==
    IF key \in DOMAIN d THEN [d EXCEPT ![key] = val] ELSE d @@ (key :> val)

RECURSIVE SumOver(_, _)
SumOver(S, f) ==
    IF S = {} THEN 0
    ELSE LET x == CHOOSE y \in S : TRUE IN f[x] + SumOver(S \ {x}, f)

\* itertools.product(s, t) as a sequence of pairs, s outermost
Product(s, t) ==
    [i \in 1..(Len(s) * Len(t)) |->
        <<s[((i - 1) \div Len(t)) + 1], t[((i - 1) % Len(t)) + 1]>>]

\* the elements of sequence s that lie in keep, in order
RECURSIVE SelectInOrder(_, _, _)
SelectInOrder(s, i, keep) ==
    IF i > Len(s) THEN <<>>
    ELSE (IF s[i] \in keep THEN <<s[i]>> ELSE <<>>) \o SelectInOrder(s, i + 1, keep)

outgoing_dim(E, n) == Cardinality({e \in E : e[1] = n})
incoming_dim(E, n) == Cardinality({e \in E : e[2] = n})

(* ---------------------- WeightedDigraphManager ------------------------- *)

\* _set_cost
SetCost(E, cf) == [e \in E |-> Get(cf, e, default_cost)]

\* _set_spanning_tree
SetSpanningTree(E) == [e \in E |-> e[2]]

\* _set_delta
SetDelta(N, E) == [n \in Range(N) |-> outgoing_dim(E, n) - incoming_dim(E, n)]

\* _set_basic_cost
SetBasicCost(E, cf) == SumOver(E, [e \in E |-> Get(cf, e, default_cost)])

\* the body of the node_j loop of least_cost_paths for (node_k, node_i,
\* node_j), on the state [cost, spanning_tree, stop]; stop is the early return
Relax(st, k, i, j) ==
    LET c == st.cost
    IN  IF /\ <<k, j>> \in DOMAIN c
           /\ (<<i, j>> \notin DOMAIN c \/ c[<<i, j>>] > c[<<i, k>>] + c[<<k, j>>])
        THEN LET nc == Get(c, <<i, k>>, 0) + Get(c, <<k, j>>, 0)
             IN  [cost |-> Put(c, <<i, j>>, nc),
                  spanning_tree |->
                      Put(st.spanning_tree, <<i, j>>, st.spanning_tree[<<i, k>>]),
                  stop |-> (i = j /\ nc < 0)]
        ELSE st

\* the node_j loop of least_cost_paths from the jx-th node on
RECURSIVE NodeJLoop(_, _, _, _, _)
NodeJLoop(N, st, k, i, jx) ==
    IF jx > Len(N) \/ st.stop THEN st
    ELSE NodeJLoop(N, Relax(st, k, i, N[jx]), k, i, jx + 1)

\* the loop of least_cost_paths over product(nodes, nodes) from pair idx on:
\* node_k outermost, then node_i, with the test (node_i, node_k) in cost
RECURSIVE LeastCostLoop(_, _, _)
LeastCostLoop(N, st, idx) ==
    IF idx >= Len(N) * Len(N) \/ st.stop THEN st
    ELSE LET k == N[(idx \div Len(N)) + 1]
             i == N[(idx % Len(N)) + 1]
         IN  LeastCostLoop(N,
                           IF <<i, k>> \in DOMAIN st.cost
                           THEN NodeJLoop(N, st, k, i, 1)
                           ELSE st,
                           idx + 1)

\* least_cost_paths: the closure it leaves in cost and spanning_tree
least_cost_paths(N, c, t) ==
    LeastCostLoop(N, [cost |-> c, spanning_tree |-> t, stop |-> FALSE], 0)

\* check_if_digraph_is_strongly_connected, on the closure cost
IsStronglyConnected(N, c) ==
    \A tail_id \in Range(N) : \A head_id \in Range(N) : <<tail_id, head_id>> \in DOMAIN c

(* ------------------------- CPTDigraphManager --------------------------- *)

\* _split_nodes_based_on_delta
DeltaNeq(N, d) == SelectInOrder(N, 1, {n \in Range(N) : d[n] < 0})
DeltaPos(N, d) == SelectInOrder(N, 1, {n \in Range(N) : d[n] > 0})

\* _find_feasible from pair idx of product(delta_neq, delta_pos) on,
\* on the state [delta, feasible]
RECURSIVE FindFeasibleLoop(_, _, _)
FindFeasibleLoop(pairs, st, idx) ==
    IF idx > Len(pairs) THEN st
    ELSE LET node_neq == pairs[idx][1]
             node_pos == pairs[idx][2]
             d == st.delta
             amount == IF -d[node_neq] < d[node_pos] THEN -d[node_neq] ELSE d[node_pos]
         IN  FindFeasibleLoop(
                 pairs,
                 [delta |-> [d EXCEPT ![node_neq] = @ + amount, ![node_pos] = @ - amount],
                  feasible |-> Put(st.feasible, pairs[idx], amount)],
                 idx + 1)

\* _find_feasible
FindFeasible(delta_neq, delta_pos, d, f) ==
    FindFeasibleLoop(Product(delta_neq, delta_pos), [delta |-> d, feasible |-> f], 1)

\* first element of sequence s, from position i on, that lies in keep;
\* NoNode when there is none (a for loop that returns or breaks on a hit)
RECURSIVE FirstIn(_, _, _)
FirstIn(s, i, keep) ==
    IF i > Len(s) THEN NoNode
    ELSE IF s[i] \in keep THEN s[i] ELSE FirstIn(s, i + 1, keep)

\* residual_cost of _get_residual_diblob_manager_for_cpt from pair idx on
RECURSIVE ResidualCostLoop(_, _, _, _, _)
ResidualCostLoop(pairs, c, f, rc, idx) ==
    IF idx > Len(pairs) THEN rc
    ELSE LET node_neq == pairs[idx][1]
             node_pos == pairs[idx][2]
             fwd == Put(rc, <<node_neq, node_pos>>, c[<<node_neq, node_pos>>])
         IN  ResidualCostLoop(
                 pairs, c, f,
                 IF f[<<node_neq, node_pos>>] # 0
                 THEN Put(fwd, <<node_pos, node_neq>>, -c[<<node_neq, node_pos>>])
                 ELSE fwd,
                 idx + 1)

\* _get_residual_diblob_manager_for_cpt: the cost and spanning_tree of the
\* CPTDigraphManager it constructs (the constructor runs _set_cost and
\* _set_spanning_tree on the residual edges and no least_cost_paths)
GetResidual(delta_neq, delta_pos, c, f) ==
    LET rc == ResidualCostLoop(Product(delta_neq, delta_pos), c, f, EmptyDict, 1)
    IN  [cost |-> SetCost(DOMAIN rc, rc),
         spanning_tree |-> SetSpanningTree(DOMAIN rc)]

\* first do-while of _improvements: the amount k to cancel on the cycle
RECURSIVE FindK(_, _, _, _, _, _)
FindK(res, f, node_id, u, k, flag) ==
    LET v == res.spanning_tree[<<u, node_id>>]
        take == res.cost[<<u, v>>] < 0 /\ (flag \/ k > Get(f, <<v, u>>, 0))
        k2 == IF take THEN Get(f, <<v, u>>, 0) ELSE k
        flag2 == IF take THEN FALSE ELSE flag
    IN  IF v = node_id THEN k2 ELSE FindK(res, f, node_id, v, k2, flag2)

\* second do-while of _improvements: cancel k along the cycle
RECURSIVE CancelCycle(_, _, _, _, _)
CancelCycle(res, f, node_id, u, k) ==
    LET v == res.spanning_tree[<<u, node_id>>]
        f2 == IF res.cost[<<u, v>>] < 0
              THEN Put(f, <<v, u>>, Get(f, <<v, u>>, 0) - k)
              ELSE Put(f, <<u, v>>, Get(f, <<u, v>>, 0) + k)
    IN  IF v = node_id THEN f2 ELSE CancelCycle(res, f2, node_id, v, k)

\* _improvements: [improved, feasible]
Improvements(N, res, f) ==
    LET node_id == FirstIn(N, 1, {n \in Range(N) : Get(res.cost, <<n, n>>, 0) < 0})
    IN  IF node_id = NoNode
        THEN [improved |-> FALSE, feasible |-> f]
        ELSE [improved |-> TRUE,
              feasible |-> CancelCycle(res, f, node_id, node_id,
                                       FindK(res, f, node_id, node_id, 0, TRUE))]

\* the loop of compute_cpt over _improvements, each round on a residual
\* manager rebuilt from the current feasible
RECURSIVE ImprovementLoop(_, _, _, _, _)
ImprovementLoop(N, delta_neq, delta_pos, c, f) ==
    LET r == Improvements(N, GetResidual(delta_neq, delta_pos, c, f), f)
    IN  IF r.improved THEN ImprovementLoop(N, delta_neq, delta_pos, c, r.feasible)
        ELSE r.feasible

\* _get_cost
GetCost(N, c, f, bc) ==
    LET P == Range(N) \X Range(N)
    IN  SumOver(P, [p \in P |-> Get(c, p, 0) * (-Get(f, p, 0))]) + bc

\* _find_path
FindPath(N, frm, f) ==
    FirstIn(N, 1, {node_id \in Range(N) : Get(f, <<frm, node_id>>, 0) > 0})

\* PathEdges appending the pair (u, v) itself instead of the hops of the path
PathEdgesDirect(t, u, v) == IF u = v THEN <<>> ELSE <<<<u, v>>>>

\* inner while of _get_cpt: the edges of the spanning_tree path from u to v
RECURSIVE PathEdges(_, _, _)
PathEdges(t, u, v) ==
    IF u = v THEN <<>>
    ELSE LET p == t[<<u, v>>] IN <<<<u, p>>>> \o PathEdges(t, p, v)

\* GetCptLoop leaving u by the bridge edge whenever it is unused, without
\* the search for another unused edge
RECURSIVE GetCptLoopBridgeFirst(_, _, _, _, _, _, _, _)
GetCptLoopBridgeFirst(N, E, t, start, v, f, edges_will_not_be_processed, cpt) ==
    LET u == v
        w == FindPath(N, u, f)
    IN  IF w # NoNode
        THEN GetCptLoopBridgeFirst(N, E, t, start, w, Put(f, <<u, w>>, -1),
                                   edges_will_not_be_processed,
                                   cpt \o PathEdges(t, u, w))
        ELSE LET bridge_node == t[<<u, start>>]
             IN  IF <<u, bridge_node>> \in edges_will_not_be_processed
                 THEN [cpt |-> cpt, feasible |-> f]
                 ELSE GetCptLoopBridgeFirst(
                          N, E, t, start, bridge_node, f,
                          edges_will_not_be_processed \cup {<<u, bridge_node>>},
                          Append(cpt, <<u, bridge_node>>))

\* outer while of _get_cpt from node v on: [cpt, feasible] at the break
RECURSIVE GetCptLoop(_, _, _, _, _, _, _, _)
GetCptLoop(N, E, t, start, v, f, edges_will_not_be_processed, cpt) ==
    LET u == v
        w == FindPath(N, u, f)
    IN  IF w # NoNode
        THEN GetCptLoop(N, E, t, start, w, Put(f, <<u, w>>, -1),
                        edges_will_not_be_processed, cpt \o PathEdges(t, u, w))
        ELSE LET bridge_node == t[<<u, start>>]
                 other == FirstIn(N, 1,
                              {node_id \in Range(N) :
                                  /\ node_id # bridge_node
                                  /\ <<u, node_id>> \in E
                                  /\ <<u, node_id>> \notin edges_will_not_be_processed})
                 nv == IF other # NoNode THEN other ELSE bridge_node
             IN  IF <<u, bridge_node>> \in edges_will_not_be_processed
                 THEN [cpt |-> cpt, feasible |-> f]
                 ELSE GetCptLoop(N, E, t, start, nv, f,
                                 edges_will_not_be_processed \cup {<<u, nv>>},
                                 Append(cpt, <<u, nv>>))

\* _get_cpt
GetCpt(N, E, t, start, f) == GetCptLoop(N, E, t, start, start, f, {}, <<>>)

(* --------------------------- state machine ----------------------------- *)

\* what the caller holds of the last compute_cpt call on the instance as it
\* stands: the exception raised, or the start node and the returned
\* (cpt, cost) with the feasible that line 295 hands to _get_cpt, and
\* whether the call before it returned too, for the same start node;
\* NoResult before the first call and after every change of the graph or of
\* cost_function
NoResult ==
    [outcome |-> "none", start |-> NoNode, cpt |-> <<>>, total |-> 0,
     plan |-> EmptyDict, repeated |-> FALSE]

\* the cost_function dictionaries a caller passes
CostFns == {EmptyDict} \cup UNION {[{k} -> CostValues] : k \in CostKeys}

\* CPTDigraphManager.__init__ on the graph with nodes N, edges E and
\* cost_function cf
Construct(N, E, cf) ==
    /\ nodes = N
    /\ edges = E
    /\ cost_function = cf
    /\ cost = SetCost(E, cf)
    /\ spanning_tree = SetSpanningTree(E)
    /\ delta = SetDelta(N, E)
    /\ basic_cost = SetBasicCost(E, cf)
    /\ feasible = EmptyDict
    /\ result = NoResult

\* CPTDigraphManager({"B0": {}}, cost_function=cf)
Init == \E cf \in CostFns : Construct(<<>>, {}, cf)

\* add_nodes(*ids): the store appends the nodes; no field of the weighted
\* or CPT manager is refreshed
AddNodes(ids) ==
    /\ Range(ids) \cap Range(nodes) = {}
    /\ nodes' = nodes \o ids
    /\ result' = NoResult
    /\ UNCHANGED <<edges, cost_function, cost, spanning_tree, delta,
                   basic_cost, feasible>>

\* CPTDigraphManager.connect_nodes(edge_id)
ConnectNodes(edge_id) ==
    /\ edge_id[1] \in Range(nodes)
    /\ edge_id[2] \in Range(nodes)
    /\ edge_id[1] # edge_id[2]
    /\ edge_id \notin edges
    /\ edges' = edges \cup {edge_id}
    /\ cost' = SetCost(edges', cost_function)
    /\ spanning_tree' = SetSpanningTree(edges')
    /\ delta' = SetDelta(nodes, edges')
    /\ basic_cost' = SetBasicCost(edges', cost_function)
    /\ result' = NoResult
    /\ UNCHANGED <<nodes, cost_function, feasible>>

\* update_cost_function(c): cost_function |= c and nothing else
UpdateCostFunction(c) ==
    /\ cost_function' =
           [k \in (DOMAIN c) \cup (DOMAIN cost_function) |->
               IF k \in DOMAIN c THEN c[k] ELSE cost_function[k]]
    /\ cost_function' # cost_function
    /\ result' = NoResult
    /\ UNCHANGED <<nodes, edges, cost, spanning_tree, delta, basic_cost,
                   feasible>>

\* the closure that line 284 of compute_cpt leaves in cost and spanning_tree
Closure == least_cost_paths(nodes, cost, spanning_tree)

\* compute_cpt is called while no closure entry lies below -CostLimit: a call
\* that raises leaves its closure in cost, and on a negative cycle every
\* further call lowers it
Callable == \A p \in DOMAIN cost : cost[p] >= -CostLimit

\* ComputeCptRaise with the split and _find_feasible of lines 287-288 run
\* before the exception is raised
ComputeCptRaiseAfterAssignment ==
    /\ Callable
    /\ LET cl == Closure
           ff == FindFeasible(
                     SelectInOrder(nodes, 1, {n \in DOMAIN delta : delta[n] < 0}),
                     SelectInOrder(nodes, 1, {n \in DOMAIN delta : delta[n] > 0}),
                     delta, feasible)
       IN  /\ ~IsStronglyConnected(nodes, cl.cost)
           /\ \E start \in Range(nodes) :
                 /\ cost' = cl.cost
                 /\ spanning_tree' = cl.spanning_tree
                 /\ delta' = ff.delta
                 /\ feasible' = ff.feasible
                 /\ result' = [outcome |-> "NotSCGException", start |-> NoNode,
                               cpt |-> <<>>, total |-> 0, plan |-> EmptyDict,
                               repeated |-> FALSE]
    /\ UNCHANGED <<nodes, edges, cost_function, basic_cost>>

\* compute_cpt(start), lines 284-285: the closure is computed in place, the
\* graph is not strongly connected and NotSCGException is raised
ComputeCptRaise ==
    /\ Callable
    /\ LET cl == Closure
       IN  /\ ~IsStronglyConnected(nodes, cl.cost)
           /\ \E start \in Range(nodes) :
                 /\ cost' = cl.cost
                 /\ spanning_tree' = cl.spanning_tree
                 /\ result' = [outcome |-> "NotSCGException", start |-> NoNode,
                               cpt |-> <<>>, total |-> 0, plan |-> EmptyDict,
                               repeated |-> FALSE]
    /\ UNCHANGED <<nodes, edges, cost_function, delta, basic_cost, feasible>>

\* lines 287-293 of compute_cpt on the closure cl: the feasible that the
\* split, the greedy assignment and the improvement loop leave
Assignment(cl) ==
    LET delta_neq == DeltaNeq(nodes, delta)
        delta_pos == DeltaPos(nodes, delta)
    IN  ImprovementLoop(nodes, delta_neq, delta_pos, cl.cost,
                        FindFeasible(delta_neq, delta_pos, delta, feasible).feasible)

\* line 295 of compute_cpt: _get_cpt first, then _get_cost on the feasible
\* that _get_cpt leaves and the basic cost bc
TourAndCost(start, cl, plan, bc) ==
    LET tour == GetCpt(nodes, edges, cl.spanning_tree, start, plan)
    IN  [cpt |-> tour.cpt,
         cost |-> GetCost(nodes, cl.cost, tour.feasible, bc)]

\* Reset without line 299: delta stays as _find_feasible left it
ResetWithoutSetDelta ==
    /\ cost' = SetCost(edges, cost_function)
    /\ spanning_tree' = SetSpanningTree(edges)
    /\ delta' = FindFeasible(DeltaNeq(nodes, delta), DeltaPos(nodes, delta),
                             delta, feasible).delta
    /\ basic_cost' = SetBasicCost(edges, cost_function)
    /\ feasible' = EmptyDict

\* lines 297-301 of compute_cpt: the reset of the transient fields
Reset ==
    /\ cost' = SetCost(edges, cost_function)
    /\ spanning_tree' = SetSpanningTree(edges)
    /\ delta' = SetDelta(nodes, edges)
    /\ basic_cost' = SetBasicCost(edges, cost_function)
    /\ feasible' = EmptyDict

\* compute_cpt(start) on a strongly connected graph, lines 284-303: closure,
\* assignment, tour and cost, reset, return
ComputeCptReturn ==
    /\ Callable
    /\ LET cl == Closure
       IN  /\ IsStronglyConnected(nodes, cl.cost)
           /\ LET plan == Assignment(cl)
              IN  \E start \in Range(nodes) :
                     LET r == TourAndCost(start, cl, plan, basic_cost)
                     IN  result' = [outcome |-> "ok", start |-> start,
                                    cpt |-> r.cpt, total |-> r.cost,
                                    plan |-> plan,
                                    repeated |-> (/\ result.outcome = "ok"
                                                  /\ result.start = start)]
    /\ Reset
    /\ UNCHANGED <<nodes, edges, cost_function>>

\* pairs of distinct node ids
Pairs(N) == {p \in Range(N) \X Range(N) : p[1] # p[2]}

\* an instance built from the empty graph by add_nodes and connect_nodes
Next ==
    \/ /\ Len(nodes) < Len(NodeIds)
       /\ AddNodes(<<NodeIds[Len(nodes) + 1]>>)
    \/ /\ Cardinality(edges) < MaxEdges
       /\ \E edge_id \in Pairs(nodes) : ConnectNodes(edge_id)
    \/ ComputeCptRaise
    \/ ComputeCptReturn

Spec == Init /\ [][Next]_vars

\* an instance constructed from a dictionary of three nodes, whose costs
\* update_cost_function then changes
InitUpdate ==
    \E E \in SUBSET Pairs(UpdateNodeIds) : \E cf \in CostFns :
        Construct(UpdateNodeIds, E, cf)

NextUpdate ==
    \/ \E c \in CostFns \ {EmptyDict} : UpdateCostFunction(c)
    \/ ComputeCptRaise
    \/ ComputeCptReturn

SpecUpdate == InitUpdate /\ [][NextUpdate]_vars

\* the repeated-call example: CPTDigraphManager({"B0": {}}, cost_function={}),
\* add_nodes('A', 'B', 'C', 'D', 's', 't'), connect_nodes over its seven
\* edges, compute_cpt
InitExample == Construct(<<>>, {}, EmptyDict)

NextExample ==
    \/ /\ nodes = <<>>
       /\ AddNodes(ExampleNodes)
    \/ \E edge_id \in ExampleEdges : ConnectNodes(edge_id)
    \/ ComputeCptRaise
    \/ ComputeCptReturn

SpecExample == InitExample /\ [][NextExample]_vars

(* ------------------------------ properties ----------------------------- *)

\* the cost of edge e under cost_function
EdgeCost(e) == Get(cost_function, e, default_cost)

Returned == result.outcome = "ok"
Raised == result.outcome = "NotSCGException"

PositiveCosts == \A e \in edges : EdgeCost(e) > 0
NonNegativeCosts == \A e \in edges : EdgeCost(e) >= 0

\* walk is a closed walk from s: it leaves s, each edge starts where the
\* edge before it ends, and it ends in s
IsClosedWalk(walk, s) ==
    /\ Len(walk) > 0
    /\ walk[1][1] = s
    /\ walk[Len(walk)][2] = s
    /\ \A i \in 1..(Len(walk) - 1) : walk[i][2] = walk[i + 1][1]

\* the sum of the edge costs over the occurrences of walk from position i on
RECURSIVE WalkCost(_, _)
WalkCost(walk, i) ==
    IF i > Len(walk) THEN 0 ELSE EdgeCost(walk[i]) + WalkCost(walk, i + 1)

Occurrences(walk, e) == Cardinality({i \in 1..Len(walk) : walk[i] = e})

Imbalance(n) == outgoing_dim(edges, n) - incoming_dim(edges, n)

Balanced == \A n \in Range(nodes) : Imbalance(n) = 0

\* the nodes a path of one or more edges leads to from the nodes of S
RECURSIVE ReachedFrom(_)
ReachedFrom(S) ==
    LET T == S \cup {e[2] : e \in {d \in edges : d[1] \in S}}
    IN  IF T = S THEN S ELSE ReachedFrom(T)

HasPath(i, j) == j \in ReachedFrom({e[2] : e \in {d \in edges : d[1] = i}})

\* some cycle of distinct nodes has a negative sum of edge costs
HasNegativeCycle ==
    \E k \in 2..Len(nodes) : \E c \in [1..k -> Range(nodes)] :
        /\ \A i \in 1..k : \A j \in 1..k : i # j => c[i] # c[j]
        /\ \A i \in 1..k : <<c[i], c[(i % k) + 1]>> \in edges
        /\ WalkCost([i \in 1..k |-> <<c[i], c[(i % k) + 1]>>], 1) < 0

\* the least path costs under the edge costs of cost_function
LeastCost ==
    least_cost_paths(nodes, SetCost(edges, cost_function), SetSpanningTree(edges)).cost

\* the cost of a duplication plan f: least path cost times amount, summed
PlanCost(f) == SumOver(DOMAIN f, [p \in DOMAIN f |-> LeastCost[p] * f[p]])

\* the plans on (deficit, surplus) pairs whose rows sum to each deficit's
\* magnitude and whose columns sum to each surplus
Plans ==
    LET Neg == {n \in Range(nodes) : Imbalance(n) < 0}
        Pos == {n \in Range(nodes) : Imbalance(n) > 0}
    IN  {f \in [Neg \X Pos -> 0..Len(nodes)] :
            /\ \A d \in Neg : SumOver(Pos, [q \in Pos |-> f[<<d, q>>]]) = -Imbalance(d)
            /\ \A q \in Pos : SumOver(Neg, [d \in Neg |-> f[<<d, q>>]]) = Imbalance(q)}

MinPlanCost ==
    LET costs == {PlanCost(f) : f \in Plans}
    IN  CHOOSE m \in costs : \A x \in costs : m <= x

\* C1: when compute_cpt returns on a graph with positive edge costs, every
\* edge of the graph occurs in the returned edge sequence
C1_EveryEdgeInTour ==
    (Returned /\ PositiveCosts) => edges \subseteq Range(result.cpt)

\* C2: when compute_cpt(start) returns on a graph with positive edge costs,
\* the returned edge sequence is a closed walk from start, also when a
\* (deficit, surplus) pair has a duplication amount of two or more
C2_TourIsClosedWalk ==
    (Returned /\ PositiveCosts) => IsClosedWalk(result.cpt, result.start)

\* C3: when compute_cpt returns on a graph with positive edge costs, the
\* returned cost is the sum of the edge costs over the returned edge sequence
C3_CostIsWalkCost ==
    (Returned /\ PositiveCosts) => result.total = WalkCost(result.cpt, 1)

\* C4: when compute_cpt returns on a graph with non-negative edge costs, the
\* returned cost is the sum of all edge costs plus the least cost of a plan
\* that corrects every imbalance, and the plan the tour is extracted from is
\* such a cheapest plan
C4_TotalIsMinimal ==
    (Returned /\ NonNegativeCosts) =>
        /\ result.total =
               SumOver(edges, [e \in edges |-> EdgeCost(e)]) + MinPlanCost
        /\ PlanCost(result.plan) = MinPlanCost

\* C5: a compute_cpt call on a graph whose edge costs have a negative cycle
\* ends with the invalid-cost failure: it neither returns nor raises
\* NotSCGException
C5_NegativeCycleReported ==
    (result.outcome # "none" /\ HasNegativeCycle)
        => result.outcome = "InvalidCostConfiguration"

\* C6: compute_cpt returns only on graphs in which every node has a path to
\* every node, and when it raises NotSCGException feasible is empty and every
\* delta entry is out-degree minus in-degree (a node without entry is one that
\* add_nodes appended and that has no edge)
C6_RaiseBeforeAssignment ==
    /\ Returned => \A i \in Range(nodes) : \A j \in Range(nodes) : HasPath(i, j)
    /\ Raised =>
          /\ feasible = EmptyDict
          /\ \A n \in Range(nodes) :
                IF n \in DOMAIN delta THEN delta[n] = Imbalance(n)
                ELSE outgoing_dim(edges, n) = 0 /\ incoming_dim(edges, n) = 0

\* C6 witness: NotSCGException was raised on a graph with a deficit node
C6_Witness == Raised /\ \E n \in DOMAIN delta : delta[n] < 0

\* C7: a compute_cpt call that returns, on an instance as add_nodes and
\* connect_nodes built it or as a returned call left it, leaves cost,
\* spanning_tree, delta, basic_cost and feasible as it found them; and when
\* the call before it returned for the same start node, it returns the same
\* cost as that call
C7_RepeatedCallSameCost ==
    [][(result'.outcome = "ok" /\ ~Raised) =>
          /\ cost' = cost
          /\ spanning_tree' = spanning_tree
          /\ delta' = delta
          /\ basic_cost' = basic_cost
          /\ feasible' = feasible
          /\ result'.repeated => result'.total = result.total]_vars

\* C7 witness: a second call in a row for the same start node has returned,
\* on a graph that needs duplications
C7_Witness ==
    /\ Returned
    /\ result.repeated
    /\ \E p \in DOMAIN result.plan : result.plan[p] > 0

\* C8: when compute_cpt(start) returns on a graph in which every node's
\* out-degree equals its in-degree, the duplication plan is empty, the
\* returned sequence is a closed walk from start with every edge exactly once,
\* and the returned cost is the sum of all edge costs
C8_BalancedGraphTour ==
    (Returned /\ Balanced) =>
        /\ result.plan = EmptyDict
        /\ IsClosedWalk(result.cpt, result.start)
        /\ Len(result.cpt) = Cardinality(edges)
        /\ \A e \in edges : Occurrences(result.cpt, e) = 1
        /\ result.total = SumOver(edges, [e \in edges |-> EdgeCost(e)])

\* C8 witness: compute_cpt returned on a balanced graph with a non-default
\* edge cost and a node of out-degree two
C8_Witness ==
    /\ Returned
    /\ Balanced
    /\ \E e \in edges : EdgeCost(e) # default_cost
    /\ \E n \in Range(nodes) : outgoing_dim(edges, n) >= 2

\* C9 as stated: on the example graph compute_cpt('s') returns a walk of
\* length 8 whose cost is 7 plus the cost of the cheapest A->D path
C9_ExampleLengthEight ==
    (Returned /\ edges = ExampleEdges /\ result.start = "s") =>
        /\ Len(result.cpt) = 8
        /\ result.total = 7 + LeastCost[<<"A", "D">>]

\* C9 amended: on the example graph compute_cpt('s') returns a walk of
\* length 10, the 7 edges plus the 3 edges of the cheapest path from the
\* deficit node D to the surplus node A, and its cost is 7 plus the cost of
\* that path, 10
C9_ExampleLengthTen ==
    (Returned /\ edges = ExampleEdges /\ result.start = "s") =>
        /\ Len(result.cpt) = 10
        /\ result.total = 7 + LeastCost[<<"D", "A">>]
        /\ result.total = 10
        /\ result.plan = (<<"D", "A">> :> 1)

\* C9 witness: compute_cpt('s') returned on the example graph
C9_Witness == Returned /\ edges = ExampleEdges /\ result.start = "s"

\* the cost compute_cpt(start) returns when its closure and its basic cost
\* are those of the edge costs under cost_function
CostUnderCostFunction(start) ==
    LET cl == least_cost_paths(nodes, SetCost(edges, cost_function),
                               SetSpanningTree(edges))
    IN  TourAndCost(start, cl, Assignment(cl),
                    SetBasicCost(edges, cost_function)).cost

\* C10: the compute_cpt call that follows update_cost_function returns the
\* cost that the updated edge costs give
C10_UpdateTakesEffect ==
    Returned => result.total = CostUnderCostFunction(result.start)

====
